---- MODULE Spec2Model ----
(***************************************************************************)
(* Budget tracking of peanutbutter: the per-project tracker ProjectStats   *)
(* (src/src/stats.rs) under a BudgetingConfig and its Timer                *)
(* (src/src/config.rs), the earlier tracker of src/src/lib.rs, and the     *)
(* Service that keeps one tracker per (policy, project) with its worker    *)
(* threads and its maintenance task.                                       *)
(*                                                                         *)
(* Time.  An Instant and a Duration are whole numbers of ticks; one tick   *)
(* is 1/TicksPerSec second (50 ms).  Clock readings are whole ticks.       *)
(* Spend.  Amounts and budgets are integers.  The f64 quotient computed by *)
(* spent_budget is kept as an exact fraction [num, den] and compared by    *)
(* cross-multiplication, so rounding of the last f64 digit is not part of  *)
(* the model.                                                              *)
(* Option<T> is a sequence of length 0 (None) or 1 (Some).                 *)
(***************************************************************************)
EXTENDS Integers, Sequences, FiniteSets, TLC

VARIABLES
    config,     \* the BudgetingConfig shared by the trackers (Arc<BudgetingConfig>)
    clock,      \* the reading of the (mock) Clock, an Instant
    stats,      \* the ProjectStats under test
    call,       \* the last call made: [op, ret]
    other,      \* a second ProjectStats driven by the same calls (comparison runs)
    other_budget, \* the budget of the second tracker's config, all else as `config`
    other_ret,  \* what the last call returned on the second tracker
    flip_at,    \* history: Some(clock reading of the call that last changed exceeds_budget)
    peak,       \* history: number of buckets after the match in record_spending, before the trim
    run,        \* history: [T, sum] of the amounts recorded at the bucket start T last recorded into
    backs,      \* how many times the clock was set back
    pc,         \* position inside a scripted run (0 when there is no script)
    script,     \* the script being run (<<>> when there is none)
    configs,    \* the Service's policies in registration order: <<[name, config], ...>>
    project_stats, \* the Service's records: (policy index, project id) -> ProjectStats
    workers,    \* per worker thread, the request it is serving
    sweep       \* the maintenance task: [phase, marked, spared]

service_vars == <<configs, project_stats, workers, sweep>>

vars == <<config, clock, stats, call, other, other_budget, other_ret,
          flip_at, peak, run, backs, pc, script,
          configs, project_stats, workers, sweep>>

----------------------------------------------------------------------------
(* Units and bounds *)

TicksPerSec == 20

Secs(n) == n * TicksPerSec

Millis(n) == (n * TicksPerSec) \div 1000

\* The mock clock is advanced before the Timer is built, so that
\* `truncated_now - budgeting_window` never underflows.
StartTime == Secs(100)

\* Bounds of the exploration.
MaxTime == 9        \* the clock is advanced at most this many ticks past StartTime
MaxStep == 2        \* largest single advance of the clock, in ticks
MaxSpent == 2       \* amounts recorded are 0..MaxSpent
MaxBucket == 4      \* a call is explored only while the front bucket stays <= this
MaxBacks == 1       \* the clock is set back at most this many times
MaxTimeBack == 3    \* horizon of the clock, in ticks, in the runs where it may go back

None == <<>>

Some(x) == <<x>>

----------------------------------------------------------------------------
(* config.rs *)

\* BudgetingConfig::new
new_config(backoff_duration, budgeting_window, bucket_size, budget) ==
    [backoff_duration |-> backoff_duration,
     budgeting_window |-> budgeting_window,
     bucket_size      |-> bucket_size,
     num_buckets      |-> budgeting_window \div bucket_size,
     budget           |-> budget]

\* Timer::truncated, with start_time = StartTime
truncated(now, duration) ==
    LET elapsed == now - StartTime
        truncated_offset == (elapsed \div duration) * duration
    IN  StartTime + truncated_offset

\* BudgetingConfig::truncated_now
truncated_now(cfg, now) == truncated(now, cfg.bucket_size)

----------------------------------------------------------------------------
(* stats.rs *)

new_stats_exceeding ==
    [exceeds_budget |-> TRUE, backoff_deadline |-> None, budget_buckets |-> <<>>]

\* ProjectStats::new
new_stats ==
    [exceeds_budget   |-> FALSE,
     backoff_deadline |-> None,
     budget_buckets   |-> <<>>]

\* Sum of b.1 over the buckets with b.0 >= earliest_time (filter_map + sum).
RECURSIVE sum_since(_, _)
sum_since(buckets, earliest_time) ==
    IF buckets = <<>> THEN 0
    ELSE (IF Head(buckets)[1] >= earliest_time THEN Head(buckets)[2] ELSE 0)
         + sum_since(Tail(buckets), earliest_time)

\* spent_budget dividing by the nominal budgeting_window, without the adjustment.
spent_budget_nominal_window(s, cfg, now, tnow) ==
    LET earliest_time == tnow - cfg.budgeting_window
        total_spent_budget == sum_since(s.budget_buckets, earliest_time)
    IN  [num |-> total_spent_budget * TicksPerSec, den |-> cfg.budgeting_window]

\* spent_budget returning the total of the window, not a per-second average.
spent_budget_total(s, cfg, now, tnow) ==
    LET earliest_time == tnow - cfg.budgeting_window
        total_spent_budget == sum_since(s.budget_buckets, earliest_time)
    IN  [num |-> total_spent_budget, den |-> 1]

\* ProjectStats::spent_budget: total / adjusted_time_window.as_secs_f64(),
\* as the fraction num / den.
spent_budget(s, cfg, now, tnow) ==
    LET earliest_time == tnow - cfg.budgeting_window
        total_spent_budget == sum_since(s.budget_buckets, earliest_time)
        adjustment == now - tnow
        adjusted_time_window ==
            IF adjustment = 0
            THEN cfg.budgeting_window
            ELSE cfg.budgeting_window - cfg.bucket_size + adjustment
    IN  [num |-> total_spent_budget * TicksPerSec, den |-> adjusted_time_window]

\* The comparison reversed.
less_than(rate, budget) == rate.num < budget * rate.den

\* The comparison with >= in place of >.
greater_or_equal(rate, budget) == rate.num >= budget * rate.den

\* `spent_budget > self.config.budget` on f64 (den > 0)
greater_than(rate, budget) == rate.num > budget * rate.den

\* check_budget arming the deadline from the truncated time instead of `now`.
\* check_budget arming a deadline after every recomputation.
check_budget_rearming(s, cfg, now, tnow) ==
    IF s.backoff_deadline # None /\ s.backoff_deadline[1] > now
    THEN [stats |-> s, ret |-> s.exceeds_budget]
    ELSE LET exceeds == greater_than(spent_budget(s, cfg, now, tnow), cfg.budget)
         IN  [stats |-> [s EXCEPT
                           !.exceeds_budget = exceeds,
                           !.backoff_deadline = Some(now + cfg.backoff_duration)],
              ret |-> exceeds]

\* check_budget answering with the recomputed value while frozen.
check_budget_returning_computed(s, cfg, now, tnow) ==
    LET exceeds == greater_than(spent_budget(s, cfg, now, tnow), cfg.budget)
    IN  IF s.backoff_deadline # None /\ s.backoff_deadline[1] > now
        THEN [stats |-> s, ret |-> exceeds]
        ELSE LET cleared == [s EXCEPT !.backoff_deadline = None]
             IN  IF cleared.exceeds_budget # exceeds
                 THEN [stats |-> [cleared EXCEPT
                                    !.exceeds_budget = exceeds,
                                    !.backoff_deadline = Some(now + cfg.backoff_duration)],
                       ret |-> exceeds]
                 ELSE [stats |-> cleared, ret |-> exceeds]

check_budget_truncated_deadline(s, cfg, now, tnow) ==
    IF s.backoff_deadline # None /\ s.backoff_deadline[1] > now
    THEN [stats |-> s, ret |-> s.exceeds_budget]
    ELSE LET cleared == [s EXCEPT !.backoff_deadline = None]
             exceeds == greater_than(spent_budget(cleared, cfg, now, tnow), cfg.budget)
         IN  IF cleared.exceeds_budget # exceeds
             THEN [stats |-> [cleared EXCEPT
                                !.exceeds_budget = exceeds,
                                !.backoff_deadline = Some(tnow + cfg.backoff_duration)],
                   ret |-> exceeds]
             ELSE [stats |-> cleared, ret |-> exceeds]

\* ProjectStats::check_budget: the record afterwards and the value returned.
check_budget(s, cfg, now, tnow) ==
    IF s.backoff_deadline # None /\ s.backoff_deadline[1] > now
    THEN [stats |-> s, ret |-> s.exceeds_budget]
    ELSE LET cleared == [s EXCEPT !.backoff_deadline = None]
             exceeds == greater_than(spent_budget(cleared, cfg, now, tnow), cfg.budget)
         IN  IF cleared.exceeds_budget # exceeds
             THEN [stats |-> [cleared EXCEPT
                                !.exceeds_budget = exceeds,
                                !.backoff_deadline = Some(now + cfg.backoff_duration)],
                   ret |-> exceeds]
             ELSE [stats |-> cleared, ret |-> exceeds]

\* The match with `latest.0 == truncated_now` in place of `>=`.
add_or_push_same_only(buckets, tnow, spent) ==
    IF buckets # <<>> /\ Head(buckets)[1] = tnow
    THEN <<<<Head(buckets)[1], Head(buckets)[2] + spent>>>> \o Tail(buckets)
    ELSE <<<<tnow, spent>>>> \o buckets

\* The match with `latest.1 = spent` in place of `+=`.
add_or_push_overwrite(buckets, tnow, spent) ==
    IF buckets # <<>> /\ Head(buckets)[1] >= tnow
    THEN <<<<Head(buckets)[1], spent>>>> \o Tail(buckets)
    ELSE <<<<tnow, spent>>>> \o buckets

\* The match on front_mut() in record_spending: add to the front bucket or push a new one.
add_or_push(buckets, tnow, spent) ==
    IF buckets # <<>> /\ Head(buckets)[1] >= tnow
    THEN <<<<Head(buckets)[1], Head(buckets)[2] + spent>>>> \o Tail(buckets)
    ELSE <<<<tnow, spent>>>> \o buckets

\* The trim one bucket late: pop_back only when longer than num_buckets + 1.
trim_late(buckets, cfg) ==
    IF Len(buckets) > cfg.num_buckets + 1
    THEN SubSeq(buckets, 1, Len(buckets) - 1)
    ELSE buckets

\* The trim at the wrong end: pop_front in place of pop_back.
trim_front(buckets, cfg) ==
    IF Len(buckets) > cfg.num_buckets
    THEN Tail(buckets)
    ELSE buckets

\* The trim in record_spending: pop_back when longer than num_buckets.
trim(buckets, cfg) ==
    IF Len(buckets) > cfg.num_buckets
    THEN SubSeq(buckets, 1, Len(buckets) - 1)
    ELSE buckets

\* ProjectStats::record_spending
record_spending(s, cfg, now, spent) ==
    LET tnow == truncated_now(cfg, now)
        pushed == add_or_push(s.budget_buckets, tnow, spent)
        trimmed == trim(pushed, cfg)
    IN  check_budget([s EXCEPT !.budget_buckets = trimmed], cfg, now, tnow)

\* exceeds_budget as a recording of no spend.
exceeds_budget_recording_zero(s, cfg, now) == record_spending(s, cfg, now, 0)

\* ProjectStats::exceeds_budget
exceeds_budget(s, cfg, now) ==
    check_budget(s, cfg, now, truncated_now(cfg, now))

\* is_stale without the backoff check.
is_stale_ignoring_backoff(s, cfg, now) ==
    LET tnow == truncated_now(cfg, now)
        earliest_time == tnow - cfg.budgeting_window
    IN  \A i \in 1..Len(s.budget_buckets) : s.budget_buckets[i][1] < earliest_time

is_stale_at_boundary(s, cfg, now) ==
    LET tnow == truncated_now(cfg, now)
        earliest_time == tnow - cfg.budgeting_window
    IN  IF s.backoff_deadline # None /\ s.backoff_deadline[1] > now
        THEN FALSE
        ELSE \A i \in 1..Len(s.budget_buckets) : s.budget_buckets[i][1] <= earliest_time

\* ProjectStats::is_stale
is_stale(s, cfg, now) ==
    LET tnow == truncated_now(cfg, now)
        earliest_time == tnow - cfg.budgeting_window
    IN  IF s.backoff_deadline # None /\ s.backoff_deadline[1] > now
        THEN FALSE
        ELSE \A i \in 1..Len(s.budget_buckets) : s.budget_buckets[i][1] < earliest_time

----------------------------------------------------------------------------
(* The tracker driven by arbitrary calls under a mock clock *)

\* The configurations explored: backoff shorter and longer than the window and
\* zero, bucket sizes that do and do not leave a remainder inside a bucket.
Configs ==
    { new_config(bo, 4, 2, b) : bo \in {0, 3, 5}, b \in {10, 20} }
    \cup { new_config(3, 2, 1, 10), new_config(3, 3, 2, 10) }

Amounts == 0..MaxSpent

no_call == [op |-> "new", ret |-> FALSE]

\* The two calls that answer whether the budget is exceeded.
CallOps == {"record_spending", "exceeds_budget"}

no_run == [T |-> None, sum |-> 0]

InitTracker ==
    /\ clock = StartTime
    /\ stats = new_stats
    /\ call = no_call
    /\ flip_at = None
    /\ peak = 0
    /\ run = no_run
    /\ backs = 0

NoOther ==
    /\ other = new_stats
    /\ other_budget = config.budget
    /\ other_ret = FALSE

NoScript ==
    /\ pc = 0
    /\ script = <<>>

\* A run of one tracker has no Service around it.
NoService ==
    /\ configs = <<>>
    /\ project_stats = <<>>
    /\ workers = <<>>
    /\ sweep = <<>>

Init ==
    /\ config \in Configs
    /\ InitTracker
    /\ NoService
    /\ NoOther
    /\ NoScript

\* History kept beside a call that took `s` to `t` at clock reading `now`.
flipped(s, t, now) ==
    IF t.exceeds_budget # s.exceeds_budget THEN Some(now) ELSE flip_at

\* mock.increment(d)
Tick ==
    /\ \E d \in 1..MaxStep :
        /\ clock + d <= StartTime + MaxTime
        /\ clock' = clock + d
    /\ call' = [op |-> "tick", ret |-> FALSE]
    /\ UNCHANGED service_vars
    /\ UNCHANGED <<config, stats, other, other_budget, other_ret,
                   flip_at, peak, run, backs, pc, script>>

\* stats.record_spending(spent)
RecordSpending ==
    \E spent \in Amounts :
        LET now == clock
            tnow == truncated_now(config, now)
            pushed == add_or_push(stats.budget_buckets, tnow, spent)
            r == record_spending(stats, config, now, spent)
        IN  /\ pushed[1][2] <= MaxBucket
            /\ stats' = r.stats
            /\ call' = [op |-> "record_spending", ret |-> r.ret]
            /\ flip_at' = flipped(stats, r.stats, now)
            /\ peak' = Len(pushed)
            /\ run' = IF run.T = Some(tnow)
                      THEN [T |-> Some(tnow), sum |-> run.sum + spent]
                      ELSE [T |-> Some(tnow), sum |-> spent]
            /\ UNCHANGED service_vars
            /\ UNCHANGED <<config, clock, other, other_budget, other_ret, backs, pc, script>>

\* stats.exceeds_budget()
ExceedsBudget ==
    LET r == exceeds_budget(stats, config, clock)
    IN  /\ stats' = r.stats
        /\ call' = [op |-> "exceeds_budget", ret |-> r.ret]
        /\ flip_at' = flipped(stats, r.stats, clock)
        /\ UNCHANGED service_vars
        /\ UNCHANGED <<config, clock, other, other_budget, other_ret,
                       peak, run, backs, pc, script>>

\* stats.is_stale(timer.now())
IsStale ==
    /\ call' = [op |-> "is_stale", ret |-> is_stale(stats, config, clock)]
    /\ UNCHANGED service_vars
    /\ UNCHANGED <<config, clock, stats, other, other_budget, other_ret,
                   flip_at, peak, run, backs, pc, script>>

Next ==
    \/ Tick
    \/ RecordSpending
    \/ ExceedsBudget
    \/ IsStale

Spec == Init /\ [][Next]_vars

\* mock.decrement(d): a clock whose readings go backwards, never before the
\* Timer's start_time.
TickBack ==
    /\ backs < MaxBacks
    /\ \E d \in 1..MaxStep :
        /\ clock - d >= StartTime
        /\ clock' = clock - d
    /\ backs' = backs + 1
    /\ call' = [op |-> "tick", ret |-> FALSE]
    /\ UNCHANGED service_vars
    /\ UNCHANGED <<config, stats, other, other_budget, other_ret,
                   flip_at, peak, run, pc, script>>

ConfigsBack == { new_config(3, 4, 2, 10), new_config(0, 2, 1, 10) }

InitBack ==
    /\ config \in ConfigsBack
    /\ InitTracker
    /\ NoService
    /\ NoOther
    /\ NoScript

\* mock.increment(d) within the shorter horizon of the runs that also go back.
TickShort ==
    /\ \E d \in 1..MaxStep :
        /\ clock + d <= StartTime + MaxTimeBack
        /\ clock' = clock + d
    /\ call' = [op |-> "tick", ret |-> FALSE]
    /\ UNCHANGED service_vars
    /\ UNCHANGED <<config, stats, other, other_budget, other_ret,
                   flip_at, peak, run, backs, pc, script>>

NextBack ==
    \/ TickShort
    \/ TickBack
    \/ RecordSpending
    \/ ExceedsBudget
    \/ IsStale

\* The tracker under a clock that may also go backwards.
SpecBack == InitBack /\ [][NextBack]_vars

----------------------------------------------------------------------------
(* Two trackers that differ only in budget, driven by the same calls *)

ConfigsPair == { new_config(bo, 4, 2, 10) : bo \in {0, 3, 5} }

other_config == [config EXCEPT !.budget = other_budget]

InitPair ==
    /\ config \in ConfigsPair
    /\ InitTracker
    /\ NoService
    /\ other = new_stats
    /\ other_budget \in {b \in {10, 20} : b >= config.budget}
    /\ other_ret = FALSE
    /\ NoScript

\* record_spending(spent) on both trackers at the same clock reading
PairRecordSpending ==
    \E spent \in Amounts :
        LET now == clock
            tnow == truncated_now(config, now)
            pushed == add_or_push(stats.budget_buckets, tnow, spent)
            r == record_spending(stats, config, now, spent)
            o == record_spending(other, other_config, now, spent)
        IN  /\ pushed[1][2] <= MaxBucket
            /\ stats' = r.stats
            /\ other' = o.stats
            /\ call' = [op |-> "record_spending", ret |-> r.ret]
            /\ other_ret' = o.ret
            /\ UNCHANGED service_vars
            /\ UNCHANGED <<config, clock, other_budget, flip_at, peak, run,
                           backs, pc, script>>

\* exceeds_budget() on both trackers at the same clock reading
PairExceedsBudget ==
    LET r == exceeds_budget(stats, config, clock)
        o == exceeds_budget(other, other_config, clock)
    IN  /\ stats' = r.stats
        /\ other' = o.stats
        /\ call' = [op |-> "exceeds_budget", ret |-> r.ret]
        /\ other_ret' = o.ret
        /\ UNCHANGED service_vars
        /\ UNCHANGED <<config, clock, other_budget, flip_at, peak, run,
                       backs, pc, script>>

NextPair ==
    \/ Tick
    \/ PairRecordSpending
    \/ PairExceedsBudget

SpecPair == InitPair /\ [][NextPair]_vars

----------------------------------------------------------------------------
(* Scripted runs: the scenario of test_budgeting *)

StatsTestBudget == 20

SpecScenarioBudget == 100

MaxScenarioBudget == 110    \* the scenarios are run under every budget 1..this

rec(at, spent) == [at |-> at, op |-> "record_spending", spent |-> spent]

ask(at) == [at |-> at, op |-> "exceeds_budget", spent |-> 0]

stale(at) == [at |-> at, op |-> "is_stale", spent |-> 0]

\* stats.rs tests::test_budgeting: the calls and the clock reading of each,
\* counted from the Timer's start.
StatsTestScript ==
    << rec(0, 40), rec(0, 10),
       rec(Millis(1500), 45),
       rec(Millis(2250), 20),
       ask(Millis(8250)), ask(Millis(11250)), ask(Millis(13250)),
       stale(Millis(23250)) >>

\* lib.rs tests::test_budgeting: the same clock readings, 10 recorded at 2.25 s.
SpecScenarioScript ==
    << rec(0, 40), rec(0, 10),
       rec(Millis(1500), 45),
       rec(Millis(2250), 10),
       ask(Millis(8250)), ask(Millis(11250)), ask(Millis(13250)) >>

\* BudgetingConfig::new(10 s, 5 s, 1 s, budget) of the tests
test_config(budget) == new_config(Secs(10), Secs(5), Secs(1), budget)

InitScenario ==
    /\ script \in {StatsTestScript, SpecScenarioScript}
    /\ config \in { test_config(b) : b \in 1..MaxScenarioBudget }
    /\ pc = 1
    /\ InitTracker
    /\ NoService
    /\ NoOther

\* mock.increment up to the step's clock reading, then stats.record_spending(spent)
ScriptRecordSpending ==
    /\ pc <= Len(script)
    /\ script[pc].op = "record_spending"
    /\ LET now == StartTime + script[pc].at
           tnow == truncated_now(config, now)
           pushed == add_or_push(stats.budget_buckets, tnow, script[pc].spent)
           r == record_spending(stats, config, now, script[pc].spent)
       IN  /\ clock' = now
           /\ stats' = r.stats
           /\ call' = [op |-> "record_spending", ret |-> r.ret]
           /\ flip_at' = flipped(stats, r.stats, now)
           /\ peak' = Len(pushed)
    /\ pc' = pc + 1
    /\ UNCHANGED service_vars
    /\ UNCHANGED <<config, other, other_budget, other_ret, run, backs, script>>

\* mock.increment up to the step's clock reading, then stats.exceeds_budget()
ScriptExceedsBudget ==
    /\ pc <= Len(script)
    /\ script[pc].op = "exceeds_budget"
    /\ LET now == StartTime + script[pc].at
           r == exceeds_budget(stats, config, now)
       IN  /\ clock' = now
           /\ stats' = r.stats
           /\ call' = [op |-> "exceeds_budget", ret |-> r.ret]
           /\ flip_at' = flipped(stats, r.stats, now)
    /\ pc' = pc + 1
    /\ UNCHANGED service_vars
    /\ UNCHANGED <<config, other, other_budget, other_ret, peak, run, backs, script>>

\* mock.increment up to the step's clock reading, then stats.is_stale(timer.now())
ScriptIsStale ==
    /\ pc <= Len(script)
    /\ script[pc].op = "is_stale"
    /\ LET now == StartTime + script[pc].at
       IN  /\ clock' = now
           /\ call' = [op |-> "is_stale", ret |-> is_stale(stats, config, now)]
    /\ pc' = pc + 1
    /\ UNCHANGED service_vars
    /\ UNCHANGED <<config, stats, other, other_budget, other_ret,
                   flip_at, peak, run, backs, script>>

NextScenario ==
    \/ ScriptRecordSpending
    \/ ScriptExceedsBudget
    \/ ScriptIsStale

SpecScenario == InitScenario /\ [][NextScenario]_vars

----------------------------------------------------------------------------
(* Scripted runs: the loops of test_adjusted_budget *)

SteadyBudget == 200

SteadyLoops == 100          \* 5 * 10 recordings, then 5 * 10 observed recordings

MaxSteadyAmount == 12       \* the fixed amount is any of 1..this

\* One loop body: every Millis(100), record `spent`.
every(period, spent) == [at |-> period, op |-> "spent_budget", spent |-> spent]

InitSteady ==
    /\ script \in { <<every(Millis(100), a)>> : a \in 1..MaxSteadyAmount }
    /\ config = test_config(SteadyBudget)
    /\ pc = 0
    /\ InitTracker
    /\ NoService
    /\ NoOther

\* One pass of the loop: spent_budget(now, truncated_now) is observed, then
\* stats.record_spending(spent) and mock.increment(100 ms).
SteadyLoop ==
    /\ pc < SteadyLoops
    /\ LET now == clock
           tnow == truncated_now(config, now)
           seen == spent_budget(stats, config, now, tnow)
           pushed == add_or_push(stats.budget_buckets, tnow, script[1].spent)
           r == record_spending(stats, config, now, script[1].spent)
       IN  /\ call' = [op |-> "spent_budget", ret |-> seen]
           /\ stats' = r.stats
           /\ flip_at' = flipped(stats, r.stats, now)
           /\ peak' = Len(pushed)
           /\ clock' = now + script[1].at
    /\ pc' = pc + 1
    /\ UNCHANGED service_vars
    /\ UNCHANGED <<config, other, other_budget, other_ret, run, backs, script>>

NextSteady == SteadyLoop

SpecSteady == InitSteady /\ [][NextSteady]_vars

----------------------------------------------------------------------------
(* The Service: registered policies, the concurrent map of records, the    *)
(* worker threads that serve requests and the maintenance task.  Its code   *)
(* is not part of src/; it is modelled from spec.md 4.4, 4.5 and 5 and from *)
(* the calls made on it in main.rs and grpc.rs.                             *)

MaxTimeService == 7     \* the maintenance task advances the clock at most this far

RegisteredName == "symbolication.native"

ConfigNames == {RegisteredName, "unknown"}

ProjectIds == {1}

WorkerIds == {1, 2}

ServiceAmounts == {1, MaxSpent}

\* The empty map of records.
no_records == [key \in {} |-> new_stats]

\* service.add_config(name, config)
add_config(cfgs, name, cfg) == Append(cfgs, [name |-> name, config |-> cfg])

get_index_of_or_first(cfgs, name) ==
    LET found == { i \in DOMAIN cfgs : cfgs[i].name = name }
    IN  IF found = {} THEN Some(1) ELSE Some(CHOOSE i \in found : TRUE)

\* The index of the policy registered under `name`; None for an unknown name.
get_index_of(cfgs, name) ==
    LET found == { i \in DOMAIN cfgs : cfgs[i].name = name }
    IN  IF found = {} THEN None ELSE Some(CHOOSE i \in found : TRUE)

\* The map with `key` bound to `s`.
insert(map, key, s) ==
    [k \in DOMAIN map \cup {key} |-> IF k = key THEN s ELSE map[k]]

\* The map without `key`.
remove(map, key) == [k \in DOMAIN map \ {key} |-> map[k]]

\* service.record_spending(config_name, project_id, spent): an unknown policy
\* is never exceeded; otherwise the record of (policy index, project id) is
\* fetched or created and the spend recorded on it, all inside the
\* critical section of that key.
service_record_spending(cfgs, map, config_name, project_id, now, spent) ==
    LET index == get_index_of(cfgs, config_name)
    IN  IF index = None
        THEN [project_stats |-> map, ret |-> FALSE]
        ELSE LET key == <<index[1], project_id>>
                 s == IF key \in DOMAIN map THEN map[key] ELSE new_stats
                 r == record_spending(s, cfgs[index[1]].config, now, spent)
             IN  [project_stats |-> insert(map, key, r.stats), ret |-> r.ret]

\* service.exceeds_budget(config_name, project_id): never creates a record;
\* an unknown policy or an unseen project is not exceeding.
service_exceeds_budget(cfgs, map, config_name, project_id, now) ==
    LET index == get_index_of(cfgs, config_name)
    IN  IF index = None
        THEN [project_stats |-> map, ret |-> FALSE]
        ELSE LET key == <<index[1], project_id>>
             IN  IF key \notin DOMAIN map
                 THEN [project_stats |-> map, ret |-> FALSE]
                 ELSE LET r == exceeds_budget(map[key], cfgs[index[1]].config, now)
                      IN  [project_stats |-> insert(map, key, r.stats), ret |-> r.ret]

\* Step 2 of the maintenance loop: the keys whose record is stale at `now`.
stale_keys(cfgs, map, now) ==
    { key \in DOMAIN map : is_stale(map[key], cfgs[key[1]].config, now) }

\* Step 3 of the maintenance loop, for one collected key: the record is
\* removed only if it is still there and still stale, checked inside the removal.
remove_if_stale(cfgs, map, key, now) ==
    IF key \in DOMAIN map /\ is_stale(map[key], cfgs[key[1]].config, now)
    THEN remove(map, key)
    ELSE map

idle == [op |-> "idle"]

asleep == [phase |-> "sleep", marked |-> {}, spared |-> {}]

no_runs == [key \in {} |-> no_run]

ServiceConfigs == { new_config(3, 4, 2, 10) }

\* The variables of the single-tracker runs, which the Service does not use.
tracker_vars == <<config, stats, other, other_budget, other_ret,
                  flip_at, peak, backs, pc, script>>

\* The state after default_service(): one policy registered, no record yet,
\* every worker idle, the maintenance task waiting for its interval.
InitService ==
    /\ config \in ServiceConfigs
    /\ configs = add_config(<<>>, RegisteredName, config)
    /\ project_stats = no_records
    /\ workers = [w \in WorkerIds |-> idle]
    /\ sweep = asleep
    /\ clock = StartTime
    /\ call = no_call
    /\ run = no_runs
    /\ stats = new_stats
    /\ flip_at = None
    /\ peak = 0
    /\ backs = 0
    /\ NoOther
    /\ NoScript

\* A request arrives at worker w, which has not yet entered the Service.
\* Requests to record spend arrive while the clock is at most `last` ticks
\* past StartTime.
Accept(w, last) ==
    /\ workers[w] = idle
    /\ \E op \in CallOps, config_name \in ConfigNames, project_id \in ProjectIds,
          spent \in ServiceAmounts :
        /\ (op = "exceeds_budget" \/ config_name # RegisteredName) => spent = MaxSpent
        /\ op = "record_spending" => clock <= StartTime + last
        /\ workers' = [workers EXCEPT ![w] =
                          [op |-> op, config_name |-> config_name,
                           project_id |-> project_id, spent |-> spent]]
    /\ UNCHANGED <<clock, call, run, configs, project_stats, sweep>>
    /\ UNCHANGED tracker_vars

\* Worker w leaves the Service.
served(w) == [workers EXCEPT ![w] = idle]

\* Some other worker holds a request to record spend for the same record as
\* worker w: the two calls overlap.
overlaps(w) ==
    \E v \in DOMAIN workers \ {w} :
        /\ workers[v] # idle
        /\ workers[v].op = "record_spending"
        /\ workers[v].config_name = workers[w].config_name
        /\ workers[v].project_id = workers[w].project_id

\* service.record_spending(&config_name, project_id, spent) on worker w
ServeRecordSpending(w) ==
    /\ workers[w] # idle
    /\ workers[w].op = "record_spending"
    /\ LET req == workers[w]
           r == service_record_spending(configs, project_stats, req.config_name,
                                        req.project_id, clock, req.spent)
           index == get_index_of(configs, req.config_name)
           key == <<index[1], req.project_id>>
           tnow == truncated_now(configs[index[1]].config, clock)
       IN  /\ index # None => r.project_stats[key].budget_buckets[1][2] <= MaxBucket
           /\ project_stats' = r.project_stats
           /\ call' = [op |-> req.op, ret |-> r.ret, config_name |-> req.config_name]
           /\ run' = IF index = None THEN run
                     ELSE insert(run, key,
                            IF key \in DOMAIN run /\ run[key].T = Some(tnow)
                            THEN [T |-> Some(tnow), sum |-> run[key].sum + req.spent,
                                  raced |-> run[key].raced \/ overlaps(w)]
                            ELSE [T |-> Some(tnow), sum |-> req.spent,
                                  raced |-> overlaps(w)])
    /\ workers' = served(w)
    /\ UNCHANGED <<clock, configs, sweep>>
    /\ UNCHANGED tracker_vars

\* service.exceeds_budget(&config_name, project_id) on worker w
ServeExceedsBudget(w) ==
    /\ workers[w] # idle
    /\ workers[w].op = "exceeds_budget"
    /\ LET req == workers[w]
           r == service_exceeds_budget(configs, project_stats, req.config_name,
                                       req.project_id, clock)
       IN  /\ project_stats' = r.project_stats
           /\ call' = [op |-> req.op, ret |-> r.ret, config_name |-> req.config_name]
    /\ workers' = served(w)
    /\ UNCHANGED <<clock, run, configs, sweep>>
    /\ UNCHANGED tracker_vars

\* Maintenance loop, step 1: the interval has passed and a refreshed clock
\* reading is published, at most `max_time` ticks past StartTime.
SweepRefresh(max_time) ==
    /\ sweep.phase = "sleep"
    /\ \E d \in 1..MaxStep :
        /\ clock + d <= StartTime + max_time
        /\ clock' = clock + d
    /\ sweep' = [phase |-> "scan", marked |-> {}, spared |-> {}]
    /\ UNCHANGED <<call, run, configs, project_stats, workers>>
    /\ UNCHANGED tracker_vars

\* Maintenance loop, step 2: collect the keys of the stale records.
SweepScan ==
    /\ sweep.phase = "scan"
    /\ sweep' = [phase |-> "remove",
                 marked |-> stale_keys(configs, project_stats, clock),
                 spared |-> {}]
    /\ UNCHANGED <<clock, call, run, configs, project_stats, workers>>
    /\ UNCHANGED tracker_vars

\* Maintenance loop, step 3: one collected key is removed if still stale;
\* when none is left the task sleeps until the next interval.
SweepRemove ==
    /\ sweep.phase = "remove"
    /\ IF sweep.marked = {}
       THEN /\ sweep' = [sweep EXCEPT !.phase = "sleep"]
            /\ UNCHANGED project_stats
       ELSE \E key \in sweep.marked :
            LET map == remove_if_stale(configs, project_stats, key, clock)
            IN  /\ project_stats' = map
                /\ sweep' = [sweep EXCEPT
                                !.marked = @ \ {key},
                                !.spared = IF key \in DOMAIN map
                                           THEN @ \cup {key} ELSE @]
    /\ UNCHANGED <<clock, call, run, configs, workers>>
    /\ UNCHANGED tracker_vars

NextService ==
    \/ \E w \in DOMAIN workers : Accept(w, MaxTimeService)
    \/ \E w \in DOMAIN workers : ServeRecordSpending(w)
    \/ \E w \in DOMAIN workers : ServeExceedsBudget(w)
    \/ SweepRefresh(MaxTimeService)
    \/ SweepScan
    \/ SweepRemove

SpecService == InitService /\ [][NextService]_vars

\* The Service when spend stops being recorded: requests to record arrive
\* only during the first RecordUntil ticks, queries go on, and the
\* maintenance task, which runs forever at its interval, keeps taking its
\* steps.  The clock runs as far as a record can take to become stale for
\* good after the last recording: the window and one bucket, a backoff armed
\* by the last flip inside the window, and a backoff armed by one more query,
\* each reached within one maintenance interval.
RecordUntil == 1

LiveConfig == new_config(3, 4, 2, 10)

LastRecording == RecordUntil + MaxStep

MaxTimeLive ==
    LastRecording + LiveConfig.budgeting_window + LiveConfig.bucket_size
    + 2 * LiveConfig.backoff_duration + 2 * MaxStep

InitServiceLive ==
    /\ config = LiveConfig
    /\ configs = add_config(<<>>, RegisteredName, config)
    /\ project_stats = no_records
    /\ workers = [w \in {1} |-> idle]
    /\ sweep = asleep
    /\ clock = StartTime
    /\ call = no_call
    /\ run = no_runs
    /\ stats = new_stats
    /\ flip_at = None
    /\ peak = 0
    /\ backs = 0
    /\ NoOther
    /\ NoScript

Maintenance == SweepRefresh(MaxTimeLive) \/ SweepScan \/ SweepRemove

NextServiceLive ==
    \/ \E w \in DOMAIN workers : Accept(w, RecordUntil)
    \/ \E w \in DOMAIN workers : ServeRecordSpending(w)
    \/ \E w \in DOMAIN workers : ServeExceedsBudget(w)
    \/ SweepRefresh(MaxTimeLive)
    \/ SweepScan
    \/ SweepRemove

SpecServiceLive == InitServiceLive /\ [][NextServiceLive]_vars /\ WF_vars(Maintenance)

----------------------------------------------------------------------------
(* Timer::truncated at the resolution of an Instant.  Here an Instant and a *)
(* Duration are whole numbers of nanoseconds.                               *)

NanosPerMicro == 1000

MaxMicros == 3      \* the durations truncated to are 1..MaxMicros microseconds

MaxNanos == 6100    \* `now` is at most this many nanoseconds past start_time

\* Duration::as_micros
as_micros(duration) == duration \div NanosPerMicro

\* Duration::from_micros
from_micros(micros) == micros * NanosPerMicro

\* Timer::truncated rounding to the nearest multiple.
truncated_nanos_nearest(start_time, now, duration) ==
    LET elapsed == now - start_time
        duration_secs == as_micros(duration)
        truncated_offset ==
            from_micros(((as_micros(elapsed) + duration_secs \div 2) \div duration_secs)
                        * duration_secs)
    IN  start_time + truncated_offset

\* Timer::truncated
truncated_nanos(start_time, now, duration) ==
    LET elapsed == now - start_time
        duration_secs == as_micros(duration)
        truncated_offset ==
            from_micros((as_micros(elapsed) \div duration_secs) * duration_secs)
    IN  start_time + truncated_offset

\* The Timer, of which only start_time matters here.  A start that is not on
\* a whole microsecond of the clock's own epoch is included.
Timers == { [start_time |-> 0], [start_time |-> 1500] }

InitTruncated ==
    /\ config \in Timers
    /\ clock \in config.start_time..(config.start_time + MaxNanos)
    /\ call = no_call
    /\ stats = new_stats
    /\ flip_at = None
    /\ peak = 0
    /\ run = no_run
    /\ backs = 0
    /\ other = new_stats
    /\ other_budget = 0
    /\ other_ret = FALSE
    /\ NoScript
    /\ NoService

\* timer.truncated(now, duration)
Truncated ==
    /\ call = no_call
    /\ \E micros \in 1..MaxMicros :
        LET duration == from_micros(micros)
        IN  call' = [op |-> "truncated", duration |-> duration,
                     ret |-> truncated_nanos(config.start_time, clock, duration)]
    /\ UNCHANGED service_vars
    /\ UNCHANGED <<config, clock, stats, other, other_budget, other_ret,
                   flip_at, peak, run, backs, pc, script>>

NextTruncated == Truncated

SpecTruncated == InitTruncated /\ [][NextTruncated]_vars

----------------------------------------------------------------------------
(* lib.rs: the earlier tracker, whose every reading of the clock is         *)
(* truncated to the bucket and whose durations count in whole seconds.      *)

MaxLibQuarters == 17    \* the clock is advanced at most this many quarter seconds
MaxLibStep == 4         \* largest single advance of the clock, in quarter seconds

\* Duration::as_secs
as_secs(duration) == duration \div TicksPerSec

\* BudgetingConfig::new (lib.rs)
lib_new_config(backoff_duration, budgeting_window, bucket_size, allowed_budget) ==
    [backoff_duration |-> backoff_duration,
     budgeting_window |-> budgeting_window,
     bucket_size      |-> bucket_size,
     num_buckets      |-> as_secs(budgeting_window) \div as_secs(bucket_size),
     allowed_budget   |-> allowed_budget]

\* Timer::truncated_now (lib.rs), `now` being clock.recent()
lib_truncated_now(cfg, now) ==
    LET elapsed == now - StartTime
        duration_secs == as_secs(cfg.bucket_size)
        truncated_offset == Secs((as_secs(elapsed) \div duration_secs) * duration_secs)
    IN  StartTime + truncated_offset

\* ProjectStats::update_aggregated_state(now); both callers pass the
\* truncated reading of the clock as `now`.
update_aggregated_state(s, cfg, now) ==
    IF s.backoff_deadline # None /\ s.backoff_deadline[1] > now
    THEN [stats |-> s, ret |-> s.exceeds_budget]
    ELSE LET cleared == [s EXCEPT !.backoff_deadline = None]
             lowest_time == now - cfg.budgeting_window
             total_spent_budget == sum_since(cleared.budget_buckets, lowest_time)
             exceeds == total_spent_budget > cfg.allowed_budget
         IN  IF cleared.exceeds_budget # exceeds
             THEN [stats |-> [cleared EXCEPT
                                !.exceeds_budget = exceeds,
                                !.backoff_deadline = Some(now + cfg.backoff_duration)],
                   ret |-> exceeds]
             ELSE [stats |-> cleared, ret |-> exceeds]

\* ProjectStats::exceeds_budget (lib.rs)
lib_exceeds_budget(s, cfg, recent) ==
    update_aggregated_state(s, cfg, lib_truncated_now(cfg, recent))

\* ProjectStats::record_budget_spend
record_budget_spend(s, cfg, recent, spent) ==
    LET now == lib_truncated_now(cfg, recent)
        buckets == s.budget_buckets
        recorded ==
            IF buckets # <<>>
            THEN IF buckets[1][1] >= now
                 THEN <<<<buckets[1][1], buckets[1][2] + spent>>>> \o Tail(buckets)
                 ELSE <<<<now, spent>>>>
                      \o (IF Len(buckets) >= cfg.num_buckets
                          THEN SubSeq(buckets, 1, Len(buckets) - 1)
                          ELSE buckets)
            ELSE <<<<now, spent>>>>
    IN  update_aggregated_state([s EXCEPT !.budget_buckets = recorded], cfg, now)

LibConfigs ==
    { lib_new_config(Secs(2), Secs(1), Secs(1), 1),
      lib_new_config(Secs(1), Secs(2), Secs(1), 1) }

InitLib ==
    /\ config \in LibConfigs
    /\ clock = StartTime
    /\ stats = new_stats
    /\ call = no_call
    /\ flip_at = None
    /\ peak = 0
    /\ run = no_run
    /\ backs = 0
    /\ other = new_stats
    /\ other_budget = 0
    /\ other_ret = FALSE
    /\ NoScript
    /\ NoService

\* mock.increment(d), d a number of quarter seconds
LibTick ==
    /\ \E quarters \in 1..MaxLibStep :
        /\ clock + Millis(250) * quarters <= StartTime + Millis(250) * MaxLibQuarters
        /\ clock' = clock + Millis(250) * quarters
    /\ call' = [op |-> "tick", ret |-> FALSE]
    /\ UNCHANGED service_vars
    /\ UNCHANGED <<config, stats, other, other_budget, other_ret,
                   flip_at, peak, run, backs, pc, script>>

\* stats.record_budget_spend(spent)
RecordBudgetSpend ==
    \E spent \in Amounts :
        LET r == record_budget_spend(stats, config, clock, spent)
        IN  /\ r.stats.budget_buckets[1][2] <= MaxBucket
            /\ stats' = r.stats
            /\ call' = [op |-> "record_budget_spend", ret |-> r.ret]
            /\ flip_at' = flipped(stats, r.stats, clock)
            /\ UNCHANGED service_vars
            /\ UNCHANGED <<config, clock, other, other_budget, other_ret,
                           peak, run, backs, pc, script>>

\* stats.exceeds_budget() (lib.rs)
LibExceedsBudget ==
    LET r == lib_exceeds_budget(stats, config, clock)
    IN  /\ stats' = r.stats
        /\ call' = [op |-> "exceeds_budget", ret |-> r.ret]
        /\ flip_at' = flipped(stats, r.stats, clock)
        /\ UNCHANGED service_vars
        /\ UNCHANGED <<config, clock, other, other_budget, other_ret,
                       peak, run, backs, pc, script>>

NextLib ==
    \/ LibTick
    \/ RecordBudgetSpend
    \/ LibExceedsBudget

SpecLib == InitLib /\ [][NextLib]_vars

----------------------------------------------------------------------------
(* A tracker kept beside the fresh one that replaces it once it is stale *)

ConfigsReplace == { new_config(3, 4, 2, 10), new_config(3, 2, 1, 10) }

\* Here pc is 0 until the record is replaced and 1 afterwards; `stats` is the
\* record that is kept, `other` the one created in its place.
InitReplace ==
    /\ config \in ConfigsReplace
    /\ InitTracker
    /\ NoService
    /\ NoOther
    /\ NoScript

\* The record is stale at the reading of the clock: a ProjectStats::new takes
\* its place, as after its removal and the next recording for its key.
Replace ==
    /\ pc = 0
    /\ is_stale(stats, config, clock)
    /\ stats.budget_buckets # <<>>
    /\ other' = new_stats
    /\ other_ret' = FALSE
    /\ pc' = 1
    /\ call' = [op |-> "replace", ret |-> FALSE]
    /\ UNCHANGED service_vars
    /\ UNCHANGED <<config, clock, stats, other_budget, flip_at, peak, run,
                   backs, script>>

NextReplace ==
    \/ Tick
    \/ pc = 0 /\ RecordSpending
    \/ pc = 0 /\ ExceedsBudget
    \/ Replace
    \/ pc = 1 /\ PairRecordSpending
    \/ pc = 1 /\ PairExceedsBudget

SpecReplace == InitReplace /\ [][NextReplace]_vars

----------------------------------------------------------------------------
(* Claims *)

\* What the buckets of `s` alone say at `now`: whether the normalized spend is over budget.
over_budget_now(s, cfg, now) ==
    greater_than(spent_budget(s, cfg, now, truncated_now(cfg, now)), cfg.budget)

\* C1: once a call made at clock time t changed exceeds_budget, every later call
\* made strictly before t + backoff_duration returns the flipped value and leaves
\* the flag unchanged; hence two consecutive changes of the flag are at least
\* backoff_duration apart.
C1_DebounceFreeze ==
    [][ /\ ( /\ call'.op \in CallOps
             /\ flip_at # None
             /\ clock' < flip_at[1] + config.backoff_duration )
           => ( /\ call'.ret = stats.exceeds_budget
                /\ stats'.exceeds_budget = stats.exceeds_budget )
        /\ ( /\ stats'.exceeds_budget # stats.exceeds_budget
             /\ flip_at # None )
           => clock' >= flip_at[1] + config.backoff_duration
      ]_vars

\* A call made inside the backoff of an earlier flip, at a later clock reading,
\* answered with the frozen flag although the buckets now say the opposite.
C1_Witness ==
    /\ call.op \in CallOps
    /\ flip_at # None
    /\ clock > flip_at[1]
    /\ clock < flip_at[1] + config.backoff_duration
    /\ call.ret = stats.exceeds_budget
    /\ over_budget_now(stats, config, clock) # stats.exceeds_budget

\* The claim's S: the spend of the buckets with timestamp >= earliest, by index.
RECURSIVE WindowSum(_, _, _)
WindowSum(buckets, earliest, n) ==
    IF n = 0 THEN 0
    ELSE WindowSum(buckets, earliest, n - 1)
         + (IF buckets[n][1] >= earliest THEN buckets[n][2] ELSE 0)

C6_BucketBound ==
    /\ [](/\ Len(stats.budget_buckets) <= config.num_buckets
          /\ peak <= config.num_buckets + 1)
    /\ [][ /\ ( /\ call'.op = "record_spending"
                /\ peak' > config.num_buckets )
              => LET old == stats.budget_buckets
                     new == stats'.budget_buckets
                 IN  /\ Len(new) = peak' - 1
                     /\ Len(new) = Len(old)
                     /\ \A i \in 2..Len(new) : new[i] = old[i - 1]
                     /\ \A i \in 1..Len(new) : old[Len(old)][1] < new[i][1]
           /\ call'.op \in {"exceeds_budget", "is_stale"}
              => Len(stats'.budget_buckets) = Len(stats.budget_buckets)
         ]_vars

\* A record_spending that pushed one bucket past num_buckets and trimmed back.
C6_Witness ==
    /\ call.op = "record_spending"
    /\ peak = config.num_buckets + 1
    /\ Len(stats.budget_buckets) = config.num_buckets
    /\ config.num_buckets >= 2

\* C7: bucket timestamps are pairwise distinct and strictly decreasing from
\* front to back, also when clock readings go backwards: a reading whose
\* truncation is <= the front bucket's timestamp adds to the front bucket.
C7_BucketOrder ==
    /\ [](\A i, j \in 1..Len(stats.budget_buckets) :
            i < j => stats.budget_buckets[i][1] > stats.budget_buckets[j][1])
    /\ [][ ( /\ call'.op = "record_spending"
             /\ stats.budget_buckets # <<>>
             /\ truncated_now(config, clock') <= Head(stats.budget_buckets)[1] )
           => /\ Len(stats'.budget_buckets) = Len(stats.budget_buckets)
              /\ Tail(stats'.budget_buckets) = Tail(stats.budget_buckets)
              /\ Head(stats'.budget_buckets)[1] = Head(stats.budget_buckets)[1]
              /\ \E a \in Amounts :
                    Head(stats'.budget_buckets)[2] = Head(stats.budget_buckets)[2] + a
         ]_vars

\* A recording made after the clock went back behind the front bucket.
C7_Witness ==
    /\ call.op = "record_spending"
    /\ Len(stats.budget_buckets) >= 2
    /\ Head(stats.budget_buckets)[1] > truncated_now(config, clock)
    /\ Head(stats.budget_buckets)[2] > 0

\* C8: the amounts recorded at clock readings that truncate to the same bucket
\* start T end up in exactly one bucket with timestamp T whose value is their
\* sum, and recording leaves the values of the other retained buckets unchanged.
C8_Accumulation ==
    /\ [](run.T # None =>
            /\ stats.budget_buckets # <<>>
            /\ Head(stats.budget_buckets) = <<run.T[1], run.sum>>
            /\ Cardinality({i \in 1..Len(stats.budget_buckets) :
                              stats.budget_buckets[i][1] = run.T[1]}) = 1)
    /\ [][ call'.op = "record_spending"
           => LET old == stats.budget_buckets
                  new == stats'.budget_buckets
              IN  IF run.T = run'.T
                  THEN Tail(new) = Tail(old)
                  ELSE \A i \in 2..Len(new) : new[i] = old[i - 1]
         ]_vars

\* Several amounts recorded into one bucket, behind which an older bucket is kept.
C8_Witness ==
    /\ call.op = "record_spending"
    /\ run.T = Some(truncated_now(config, clock))
    /\ run.sum > MaxSpent
    /\ Len(stats.budget_buckets) >= 2
    /\ stats.budget_buckets[2][2] > 0

\* Clock readings is_stale is asked about: any time on either side of the clock.
Nows == StartTime..(StartTime + MaxTime + 6)

\* C9: is_stale(now) is FALSE while a backoff deadline > now is stored, whatever
\* the buckets hold; otherwise it is TRUE exactly when every retained bucket is
\* older than truncate(now) - budgeting_window.
C9_Staleness ==
    /\ \A now \in Nows :
        LET pending == /\ stats.backoff_deadline # None
                       /\ stats.backoff_deadline[1] > now
            outside == \A i \in 1..Len(stats.budget_buckets) :
                          stats.budget_buckets[i][1]
                            < truncated_now(config, now) - config.budgeting_window
        IN  is_stale(stats, config, now) = (~pending /\ outside)
    /\ call.op = "is_stale" =>
        call.ret = ( /\ ~( /\ stats.backoff_deadline # None
                           /\ stats.backoff_deadline[1] > clock )
                     /\ \A i \in 1..Len(stats.budget_buckets) :
                          stats.budget_buckets[i][1]
                            < truncated_now(config, clock) - config.budgeting_window )

\* is_stale answered FALSE for a record whose buckets are all outside the
\* window, because its backoff deadline is still ahead.
C9_Witness ==
    /\ call.op = "is_stale"
    /\ call.ret = FALSE
    /\ stats.backoff_deadline # None
    /\ stats.backoff_deadline[1] > clock
    /\ stats.budget_buckets # <<>>
    /\ \A i \in 1..Len(stats.budget_buckets) :
          stats.budget_buckets[i][1]
            < truncated_now(config, clock) - config.budgeting_window

\* The run of `scr` under `budget` has made its first k calls.
after(scr, budget, k) ==
    /\ script = scr
    /\ config.budget = budget
    /\ pc = k + 1

\* C3: the scenario asserted by stats.rs test_budgeting under budget 20:
\* not exceeding after the two recordings at t = 0 and after recording 45 at
\* 1.5 s, exceeding after recording 20 at 2.25 s and when asked at 8.25 s and
\* 11.25 s, not exceeding when asked at 13.25 s, and stale at 23.25 s.
C3_StatsTestScenario ==
    /\ after(StatsTestScript, StatsTestBudget, 2) => call.ret = FALSE
    /\ after(StatsTestScript, StatsTestBudget, 3) => call.ret = FALSE
    /\ after(StatsTestScript, StatsTestBudget, 4) => call.ret = TRUE
    /\ after(StatsTestScript, StatsTestBudget, 5) => call.ret = TRUE
    /\ after(StatsTestScript, StatsTestBudget, 6) => call.ret = TRUE
    /\ after(StatsTestScript, StatsTestBudget, 7) => call.ret = FALSE
    /\ after(StatsTestScript, StatsTestBudget, 8) => call.ret = TRUE

\* C4 as stated: the spec's scenario under budget 100: not exceeding after the
\* recordings at t = 0 and at 1.5 s, exceeding after recording 10 at 2.25 s with
\* the debounce held until 12.25 s, exceeding when asked at 8.25 s and 11.25 s,
\* not exceeding when asked at 13.25 s.
C4_SpecScenario ==
    /\ after(SpecScenarioScript, SpecScenarioBudget, 2) => call.ret = FALSE
    /\ after(SpecScenarioScript, SpecScenarioBudget, 3) => call.ret = FALSE
    /\ after(SpecScenarioScript, SpecScenarioBudget, 4) =>
          /\ call.ret = TRUE
          /\ stats.backoff_deadline = Some(StartTime + Millis(12250))
    /\ after(SpecScenarioScript, SpecScenarioBudget, 5) => call.ret = TRUE
    /\ after(SpecScenarioScript, SpecScenarioBudget, 6) => call.ret = TRUE
    /\ after(SpecScenarioScript, SpecScenarioBudget, 7) => call.ret = FALSE

\* C4 amended: in the spec's scenario under budget 100 every call returns not
\* exceeding: recording 10 at 2.25 s leaves the decision not exceeding and arms
\* no debounce, and the queries at 8.25 s, 11.25 s and 13.25 s return not exceeding.
C4_SpecScenarioAmended ==
    /\ after(SpecScenarioScript, SpecScenarioBudget, 2) => call.ret = FALSE
    /\ after(SpecScenarioScript, SpecScenarioBudget, 3) => call.ret = FALSE
    /\ after(SpecScenarioScript, SpecScenarioBudget, 4) =>
          /\ call.ret = FALSE
          /\ stats.exceeds_budget = FALSE
          /\ stats.backoff_deadline = None
    /\ after(SpecScenarioScript, SpecScenarioBudget, 5) => call.ret = FALSE
    /\ after(SpecScenarioScript, SpecScenarioBudget, 6) => call.ret = FALSE
    /\ after(SpecScenarioScript, SpecScenarioBudget, 7) => call.ret = FALSE

\* The spec's scenario after its recording at 2.25 s: 105 spent in the window.
C4_Witness ==
    /\ after(SpecScenarioScript, SpecScenarioBudget, 4)
    /\ clock = StartTime + Millis(2250)
    /\ stats.budget_buckets = << <<StartTime + Secs(2), 10>>,
                                 <<StartTime + Secs(1), 45>>,
                                 <<StartTime, 50>> >>
    /\ call = [op |-> "record_spending", ret |-> FALSE]

\* Whether `s` has a backoff deadline still ahead of `now`.
pending(s, now) ==
    /\ s.backoff_deadline # None
    /\ s.backoff_deadline[1] > now

\* C5 as stated: of two trackers differing only in budget, B1 <= B2, driven by
\* the same calls, every call that returns not exceeding under B1 returns not
\* exceeding under B2.
C5_BudgetMonotone ==
    (call.op \in CallOps /\ call.ret = FALSE) => other_ret = FALSE

\* C5 amended: the same, for every call in which neither tracker has a backoff
\* deadline pending.
C5_BudgetMonotoneUnfrozen ==
    [][ ( /\ call'.op \in CallOps
          /\ ~pending(stats, clock')
          /\ ~pending(other, clock') )
        => (call'.ret = FALSE => other_ret' = FALSE)
      ]_vars

\* A call in which both trackers recomputed, after the smaller budget had
\* flipped twice, and both answered not exceeding with spend still in the window.
C5_Witness ==
    /\ call.op \in CallOps
    /\ other_budget > config.budget
    /\ stats.backoff_deadline = Some(clock + config.backoff_duration)
    /\ config.backoff_duration > 0
    /\ other.backoff_deadline = None
    /\ call.ret = FALSE
    /\ other_ret = FALSE
    /\ \E i \in 1..Len(stats.budget_buckets) :
          /\ stats.budget_buckets[i][2] > 0
          /\ stats.budget_buckets[i][1]
               >= truncated_now(config, clock) - config.budgeting_window

in_use(s, cfg, now) ==
    \/ s.backoff_deadline # None /\ s.backoff_deadline[1] > now
    \/ \E i \in 1..Len(s.budget_buckets) :
          s.budget_buckets[i][1] >= truncated_now(cfg, now) - cfg.budgeting_window

\* C11: the maintenance task removes a record only in a step in which, at the
\* moment of removal, the record has no backoff deadline ahead of the clock and
\* no bucket inside the trailing window; a key collected as stale by the scan
\* whose record is in use again when the removal pass reaches it stays in the
\* map, unchanged.
C11_SweepRemovesOnlyStale ==
    [][ /\ \A key \in DOMAIN project_stats :
              key \notin DOMAIN project_stats'
              => ~in_use(project_stats[key], configs[key[1]].config, clock)
        /\ \A key \in DOMAIN project_stats :
              ( /\ sweep # <<>>
                /\ sweep.phase = "remove"
                /\ key \in sweep.marked
                /\ key \notin sweep'.marked
                /\ in_use(project_stats[key], configs[key[1]].config, clock) )
              => /\ key \in DOMAIN project_stats'
                 /\ project_stats'[key] = project_stats[key]
      ]_vars

\* The removal pass has reached a key that the scan collected and has left
\* its record in place, because spend was recorded on it in between.
C11_Witness ==
    /\ sweep.phase = "remove"
    /\ \E key \in sweep.spared :
        /\ key \in DOMAIN project_stats
        /\ project_stats[key].budget_buckets[1][1]
               = truncated_now(configs[key[1]].config, clock)

returns(w, op) ==
    /\ workers[w] # idle
    /\ workers[w].op = op
    /\ workers'[w] = idle

\* C13: a query for a key that has no record returns FALSE and leaves the map
\* as it is; a key enters the map only in a step in which a worker records
\* spend under a registered policy for that key; and the record that enters
\* is what recording that one amount leaves of a record that did not exceed,
\* had no backoff deadline and had no buckets: one bucket with the amount, the
\* flag as returned, and a deadline only if the flag was raised by the call.
C13_QueriesCreateNothing ==
    [][ /\ \A w \in DOMAIN workers :
              ( /\ returns(w, "exceeds_budget")
                /\ \A key \in DOMAIN project_stats :
                      key[2] # workers[w].project_id
                      \/ get_index_of(configs, workers[w].config_name) # Some(key[1]) )
              => /\ call'.ret = FALSE
                 /\ project_stats' = project_stats
        /\ \A key \in DOMAIN project_stats' \ DOMAIN project_stats :
              \E w \in DOMAIN workers :
                  LET cfg == configs[key[1]].config
                      s == project_stats'[key]
                  IN  /\ returns(w, "record_spending")
                      /\ get_index_of(configs, workers[w].config_name) = Some(key[1])
                      /\ workers[w].project_id = key[2]
                      /\ s.budget_buckets
                            = << <<truncated_now(cfg, clock), workers[w].spent>> >>
                      /\ s.exceeds_budget = call'.ret
                      /\ s.backoff_deadline
                            = IF call'.ret THEN Some(clock + cfg.backoff_duration)
                              ELSE None
      ]_vars

\* A query under the registered policy for a project that never recorded
\* spend has returned FALSE, and the map is still empty.
C13_Witness ==
    /\ call.op = "exceeds_budget"
    /\ call.config_name = RegisteredName
    /\ call.ret = FALSE
    /\ project_stats = no_records
    /\ run = no_runs
    /\ sweep = asleep

\* C14: a call of record_spending or exceeds_budget that names a policy no
\* add_config has registered returns FALSE and changes neither the policies
\* nor the map of records.
C14_UnknownPolicy ==
    [][ \A w \in DOMAIN workers :
            ( /\ returns(w, "record_spending") \/ returns(w, "exceeds_budget")
              /\ \A i \in DOMAIN configs : configs[i].name # workers[w].config_name )
            => /\ call'.ret = FALSE
               /\ project_stats' = project_stats
               /\ configs' = configs
      ]_vars

\* Spend recorded under an unknown policy name has been answered with FALSE
\* while the project's record under the registered policy exceeds its budget.
C14_Witness ==
    /\ call.op = "record_spending"
    /\ call.config_name \notin { configs[i].name : i \in DOMAIN configs }
    /\ call.ret = FALSE
    /\ \E key \in DOMAIN project_stats : project_stats[key].exceeds_budget

\* C15: a call of exceeds_budget() leaves the sequence of buckets as it was
\* (of the record it may change only the flag and the backoff deadline), and
\* a call of is_stale(now) leaves the whole record as it was; neither touches
\* the configuration.
C15_QueryFrame ==
    [][ /\ call'.op = "exceeds_budget"
           => /\ stats'.budget_buckets = stats.budget_buckets
              /\ config' = config
        /\ call'.op = "is_stale"
           => /\ stats' = stats
              /\ config' = config
      ]_vars

\* A query has just lowered the flag and armed a deadline on a record that
\* still holds two buckets.
C15_Witness ==
    /\ call.op = "exceeds_budget"
    /\ flip_at = Some(clock)
    /\ ~stats.exceeds_budget
    /\ stats.backoff_deadline = Some(clock + config.backoff_duration)
    /\ Len(stats.budget_buckets) = 2

\* No request to record spend is being served, and none arrives any more.
recording_over ==
    /\ clock > StartTime + RecordUntil
    /\ clock <= StartTime + LastRecording
    /\ \A w \in DOMAIN workers : workers[w].op # "record_spending"

\* C16: once spend is no longer recorded for a key, while queries for it may
\* go on, the clock advances and the maintenance task keeps running, the
\* record of the key is eventually removed from the map, and from then on the
\* key stays absent.
C16_EventualEviction ==
    \A project_id \in ProjectIds :
        recording_over ~> [](<<1, project_id>> \notin DOMAIN project_stats)

\* A query is answered for a project whose record the maintenance task has
\* removed after its spend left the window.
C16_Witness ==
    /\ clock > StartTime + LastRecording
    /\ DOMAIN run # {}
    /\ project_stats = no_records
    /\ call.op = "exceeds_budget"
    /\ call.config_name = RegisteredName

\* C17: for now >= start_time and a duration d of a whole number (at least
\* one) of microseconds, truncated(now, d) lies a multiple of d after
\* start_time, is not after now, and is less than d plus one microsecond
\* before it; truncating is idempotent and non-decreasing in now; every
\* instant of the bucket [truncated, truncated + d) truncates to the same
\* instant, and the instant d later truncates to exactly d later.
C17_Truncation ==
    call.op = "truncated"
    => LET start_time == config.start_time
           now == clock
           d == call.duration
           t == call.ret
       IN  /\ now >= start_time
           /\ d >= NanosPerMicro /\ d % NanosPerMicro = 0
           /\ (t - start_time) % d = 0
           /\ t <= now
           /\ now - t < d + NanosPerMicro
           /\ truncated_nanos(start_time, t, d) = t
           /\ truncated_nanos(start_time, now + 1, d) >= t
           /\ truncated_nanos(start_time, t + d - 1, d) = t
           /\ truncated_nanos(start_time, now + d, d) = t + d
           /\ truncated_nanos(start_time, t + d, d) = t + d

\* An instant that is neither on a whole microsecond nor on a bucket start,
\* truncated to the start of the second bucket of two microseconds.
C17_Witness ==
    /\ call.op = "truncated"
    /\ call.duration = 2 * NanosPerMicro
    /\ (clock - config.start_time) % NanosPerMicro # 0
    /\ clock - call.ret > NanosPerMicro
    /\ call.ret = config.start_time + call.duration

\* C18: the num_buckets computed by BudgetingConfig::new is at least the
\* ceiling of budgeting_window / bucket_size, that is, num_buckets buckets
\* span at least the budgeting window.
C18_NumBucketsCoverWindow ==
    config.num_buckets * config.bucket_size >= config.budgeting_window

\* C19: in the tracker of lib.rs, the call that changes the flag and the call
\* that changed it last read the clock at least backoff_duration apart.
C19_LibFlipsApart ==
    [][ ( /\ stats'.exceeds_budget # stats.exceeds_budget
          /\ flip_at # None )
        => clock' - flip_at[1] >= config.backoff_duration
      ]_vars

\* C20: when a call of record_spending or exceeds_budget returns, the value
\* it returned is the exceeds_budget flag the record then holds, whether the
\* call found the flag frozen by a backoff deadline or recomputed it.
C20_ReturnsStoredFlag ==
    call.op \in CallOps => call.ret = stats.exceeds_budget

\* Spend recorded while the lowered flag is frozen: the call has returned
\* FALSE, the flag it left, although the buckets are over the budget.
C20_Witness ==
    /\ call.op = "record_spending"
    /\ stats.backoff_deadline # None
    /\ stats.backoff_deadline[1] > clock
    /\ flip_at # Some(clock)
    /\ call.ret = FALSE
    /\ ~stats.exceeds_budget
    /\ over_budget_now(stats, config, clock)

\* C21: whenever is_stale(now) holds of the record, for any now, the spend
\* that check_budget sums at that now (the buckets not older than
\* truncate(now) - budgeting_window) is 0, and exceeds_budget() called at that
\* now returns FALSE, for the record's budget and for a budget of 0 alike,
\* also when the stored flag is still TRUE: the answer given for a key that
\* has no record.
C21_StaleIsUnderBudget ==
    config.budget >= 0
    => \A now \in Nows :
          is_stale(stats, config, now)
          => /\ WindowSum(stats.budget_buckets,
                          truncated_now(config, now) - config.budgeting_window,
                          Len(stats.budget_buckets)) = 0
             /\ \A budget \in {0, config.budget} :
                   LET r == exceeds_budget(stats, [config EXCEPT !.budget = budget], now)
                   IN  /\ r.ret = FALSE
                       /\ r.stats.exceeds_budget = FALSE

\* is_stale has just answered TRUE for a record that holds a bucket and whose
\* stored flag is still TRUE.
C21_Witness ==
    /\ call.op = "is_stale"
    /\ call.ret
    /\ stats.exceeds_budget
    /\ stats.budget_buckets # <<>>
    /\ stats.backoff_deadline # None

\* C22: once a record that is stale at the reading of the clock has been
\* replaced by a freshly created one, every later call of record_spending or
\* exceeds_budget returns on the fresh record what it returns on the record
\* that was kept.
C22_ReplacementUnobservable ==
    (pc = 1 /\ call.op \in CallOps) => other_ret = call.ret

\* C23: with num_buckets >= 1 and a clock that never goes back, when
\* record_spending(amount) returns the front bucket starts at truncate(now)
\* and holds every amount recorded at that start, the amount just recorded
\* included; and when the trim of that call removed a bucket, it removed the
\* oldest bucket the record had before the call, whose start is strictly before
\* the front's, and left the other buckets as the match left them.
C23_RecordedSpendKept ==
    [][ (config.num_buckets >= 1 /\ call'.op = "record_spending")
        => LET tnow == truncated_now(config, clock)
               amount == run'.sum - (IF run.T = Some(tnow) THEN run.sum ELSE 0)
               before == stats.budget_buckets
               buckets == stats'.budget_buckets
           IN  /\ buckets # <<>>
               /\ buckets[1][1] = tnow
               /\ buckets[1][2] = run'.sum
               /\ buckets[1][2] >= amount
               /\ peak' > Len(buckets)
                     => /\ before # <<>>
                        /\ before[Len(before)][1] < buckets[1][1]
                        /\ buckets = SubSeq(add_or_push(before, tnow, amount), 1, peak' - 1)
      ]_vars

C23_Witness ==
    /\ call.op = "record_spending"
    /\ config.num_buckets >= 1
    /\ peak > Len(stats.budget_buckets)
    /\ run.sum > 0
    /\ stats.budget_buckets[1][2] = run.sum

====
